---- MODULE Spec2Model ----
(***************************************************************************)
(* Model of tools/pasta-images-downloader/download_images.py: the manifest *)
(* reader, the sequential batch loop of main(), download_one() with its    *)
(* temp-file + rename materialisation, extension inference and build_zip.  *)
(*                                                                         *)
(* Strings whose characters the code inspects (URL paths, Content-Type     *)
(* headers, file suffixes) are sequences of one-character strings.         *)
(* A file path is a record [inRoot, dir, stem, suffix]: inRoot says        *)
(* whether the path lies under ROOT, suffix is pathlib's Path.suffix.      *)
(***************************************************************************)
EXTENDS Integers, Sequences, FiniteSets, TLC

(* ----------------------------- bounds ---------------------------------- *)
MaxJobs == 2
MaxRuns == 2

(* -------------------------- string helpers ----------------------------- *)
\* main() has not returned
NotReturned == -1

UpperChars == <<"A","B","C","D","E","F","G","H","I","J","K","L","M",
                "N","O","P","Q","R","S","T","U","V","W","X","Y","Z">>
LowerChars == <<"a","b","c","d","e","f","g","h","i","j","k","l","m",
                "n","o","p","q","r","s","t","u","v","w","x","y","z">>

\* str.lower() on one character
LowerChar(c) ==
  IF \E i \in 1..26 : UpperChars[i] = c
  THEN LowerChars[CHOOSE i \in 1..26 : UpperChars[i] = c]
  ELSE c

\* str.lower()
lower(s) == [i \in 1..Len(s) |-> LowerChar(s[i])]

\* str.split(sep): the list of the pieces between occurrences of sep
RECURSIVE SplitAcc(_, _, _, _)
SplitAcc(s, sep, done, piece) ==
  IF s = <<>> THEN Append(done, piece)
  ELSE IF Head(s) = sep
       THEN SplitAcc(Tail(s), sep, Append(done, piece), <<>>)
       ELSE SplitAcc(Tail(s), sep, done, Append(piece, Head(s)))

split(s, sep) == SplitAcc(s, sep, <<>>, <<>>)

Last(q) == q[Len(q)]

\* str.strip(): drop leading and trailing blanks
RECURSIVE lstrip(_)
lstrip(s) == IF s # <<>> /\ Head(s) = " " THEN lstrip(Tail(s)) ELSE s

RECURSIVE rstrip(_)
rstrip(s) ==
  IF s # <<>> /\ Last(s) = " " THEN rstrip(SubSeq(s, 1, Len(s) - 1)) ELSE s

strip(s) == rstrip(lstrip(s))

\* os.path.basename: what follows the last "/"
basename(p) == Last(split(p, "/"))

\* urlparse(url).path: a URL is [path, query]; the query is not in the path
urlpath(url) == url.path

(* --------------------------- extension tables -------------------------- *)
DotJpg  == <<".","j","p","g">>
DotJpeg == <<".","j","p","e","g">>
DotPng  == <<".","p","n","g">>
DotWebp == <<".","w","e","b","p">>
DotGif  == <<".","g","i","f">>
DotTif  == <<".","t","i","f">>
DotTiff == <<".","t","i","f","f">>
DotBmp  == <<".","b","m","p">>
DotPart == <<".","p","a","r","t">>
NoExt   == <<>>

ImageSlash == <<"i","m","a","g","e","/">>

\* CONTENT_TYPE_EXT
CONTENT_TYPE_EXT ==
  ( ImageSlash \o <<"j","p","e","g">> :> DotJpg )  @@
  ( ImageSlash \o <<"j","p","g">>     :> DotJpg )  @@
  ( ImageSlash \o <<"p","n","g">>     :> DotPng )  @@
  ( ImageSlash \o <<"w","e","b","p">> :> DotWebp ) @@
  ( ImageSlash \o <<"g","i","f">>     :> DotGif )  @@
  ( ImageSlash \o <<"t","i","f","f">> :> DotTif )  @@
  ( ImageSlash \o <<"b","m","p">>     :> DotBmp )

\* the list literal of infer_ext_from_url
UrlExtWhitelist ==
  {DotJpg, DotJpeg, DotPng, DotWebp, DotGif, DotTif, DotTiff, DotBmp}

\* variant: the suffix is compared without .lower()
infer_ext_from_url_no_lower(url) ==
  LET base == basename(urlpath(url)) IN
  IF \E i \in 1..Len(base) : base[i] = "."
  THEN LET ext == <<".">> \o Last(split(base, ".")) IN
       IF ext \in UrlExtWhitelist
       THEN (IF ext = DotJpeg THEN DotJpg ELSE ext)
       ELSE NoExt
  ELSE NoExt

\* infer_ext_from_url
infer_ext_from_url(url) ==
  LET base == basename(urlpath(url)) IN
  IF \E i \in 1..Len(base) : base[i] = "."
  THEN LET ext == <<".">> \o lower(Last(split(base, "."))) IN
       IF ext \in UrlExtWhitelist
       THEN (IF ext = DotJpeg THEN DotJpg ELSE ext)
       ELSE NoExt
  ELSE NoExt

\* a response without the header
NoHeader == <<"None">>

\* r.headers.get("Content-Type", "")
HeaderOrEmpty(h) == IF h = NoHeader THEN <<>> ELSE h

\* infer_ext_from_content_type
infer_ext_from_content_type(content_type) ==
  LET ct == lower(strip(split(content_type, ";")[1])) IN
  IF ct \in DOMAIN CONTENT_TYPE_EXT THEN CONTENT_TYPE_EXT[ct] ELSE NoExt

(* ------------------------------- paths --------------------------------- *)
\* ROOT / rel: an absolute rel replaces ROOT, anything else lies under it
RootJoin(rel) ==
  [inRoot |-> ~rel.abs, dir |-> rel.dir, stem |-> rel.stem, suffix |-> rel.suffix]

\* Path.with_suffix
with_suffix(p, s) == [p EXCEPT !.suffix = s]

\* Path.relative_to(ROOT) succeeds exactly for paths under ROOT
RelativeToRaises(p) == ~p.inRoot
relative_to_ROOT(p) == <<p.dir, p.stem, p.suffix>>

(* --------------------------- the environment --------------------------- *)
\* manifest destinations (relative_output_path column)
Rel(dir, stem, suffix) ==
  [abs |-> FALSE, dir |-> dir, stem |-> stem, suffix |-> suffix]
RelAJpg   == Rel("uncooked", "a", DotJpg)
RelBPng   == Rel("cooked", "b", DotPng)
RelShape1 == Rel("uncooked", "shape1", NoExt)
\* the value csv.DictReader gives a field the row lacks
NoField   == Rel("None", "None", NoExt)
RelAbs    == [abs |-> TRUE, dir |-> "/tmp", stem |-> "x", suffix |-> DotJpg]

\* request URLs a server answers; any other is not a well-formed URL
GoodUrls == {"u1", "u2", "u0"}

\* the body the server streams for a URL, as the chunks of iter_content
Body(url) ==
  CASE url = "u1" -> << <<"A1">>, <<"A2">> >>
    [] url = "u2" -> << <<"B1">> >>
    [] OTHER      -> << >>

\* final (post-redirect) URLs r.url a server may answer from
FinalUrls ==
  { [path |-> <<"/","i","m","g">>,                 query |-> <<"x",".","p","n","g">>],
    [path |-> <<"/","w","/","a",".","J","P","E","G">>, query |-> <<>>],
    [path |-> <<"/","w",".","d","/","b",".","g","i","f">>, query |-> <<>>],
    [path |-> <<"/","a",".","t","x","t">>,         query |-> <<>>],
    [path |-> <<"/","a",".","t","i","f","f">>,     query |-> <<>>] }

\* Content-Type headers a server may send (NoHeader: none)
ContentTypes ==
  { NoHeader,
    ImageSlash \o <<"p","n","g">>,
    <<" ","I","m","a","g","e","/","J","P","E","G"," ",";","q","=","1">>,
    <<"t","e","x","t","/","h","t","m","l">>,
    ImageSlash \o <<"t","i","f","f">> }

\* manifest rows: the two csv fields; None is a field the row lacks
Row(url, rel) == [url |-> url, relative_output_path |-> rel]
Rows ==
  { Row("u1", RelAJpg), Row("u0", RelAJpg), Row("u2", RelBPng),
    Row("u1", RelShape1), Row("u1", RelAbs), Row("u2", NoField) }

RECURSIVE SeqsUpTo(_, _)
SeqsUpTo(S, n) ==
  IF n = 0 THEN { <<>> }
  ELSE LET shorter == SeqsUpTo(S, n - 1) IN
       shorter \cup { Append(q, x) : q \in {t \in shorter : Len(t) = n - 1}, x \in S }

\* manifests of at most MaxJobs rows, no row written twice
Manifests ==
  { m \in SeqsUpTo(Rows, MaxJobs) :
      \A i \in 1..Len(m), j \in 1..Len(m) : i # j => m[i] # m[j] }

\* file systems a first run may start from: file path -> content
NoFiles == [p \in {} |-> <<>>]
\* an empty uncooked/a.jpg, a file of an earlier manifest, a stray file
OldFiles == (RootJoin(RelAJpg) :> <<>>) @@
            (RootJoin(Rel("cooked", "old", DotPng)) :> <<"O">>) @@
            (RootJoin(Rel("misc", "notes", NoExt)) :> <<"N">>)

\* ZIP_OUT: whether the file exists, and its entries
NoZip == [exists |-> FALSE, entries |-> {}]
OldZip == [exists |-> TRUE,
           entries |-> { [name |-> <<"cooked", "gone", DotPng>>, data |-> <<"Z">>] }]

\* values of download_one's locals outside a call
NoPath == [inRoot |-> TRUE, dir |-> "None", stem |-> "None", suffix |-> NoExt]
NoResp == [url |-> [path |-> <<>>, query |-> <<>>], ctype |-> NoHeader]

\* what a first run may find: the files, and the archive of an earlier run
InitFileSystems ==
  { [disk |-> NoFiles, zip |-> NoZip],
    [disk |-> OldFiles, zip |-> OldZip] }

\* the (final URL, Content-Type) answers of the servers behind GoodUrls
Servers ==
  { resp \in [url : FinalUrls, ctype : ContentTypes] :
      /\ resp.ctype = ImageSlash \o <<"p","n","g">>
      /\ \/ resp.url.query # <<>>
         \/ resp.url.path[2] = "w" /\ resp.url.path[3] = "/" }

(* ------------------------------- state --------------------------------- *)
VARIABLES
  manifestExists,  \* MANIFEST.exists()
  manifest,        \* the rows of manifest.csv
  disk,            \* the regular files: path -> content
  zip,             \* ZIP_OUT: the archive file
  pc,              \* where main() / download_one() stands
  jobs,            \* main: jobs
  idx,             \* main: idx of the loop
  downloaded,      \* main: downloaded
  errors,          \* main: errors
  rc,              \* main's return value, NotReturned before it returns
  out_path,        \* download_one: out_path
  tmp_path,        \* download_one: tmp_path
  r,               \* download_one: the response r
  k,               \* download_one: chunks of r consumed so far
  req,             \* download_one: an HTTP request was issued in this call
  log,             \* the progress lines printed in this run, one per job
  zipBuilt,        \* build_zip has run in this run
  run,             \* number of the current invocation of the script
  start,           \* disk and zip as the current run found them
  prevRc           \* what the previous run returned

vars == <<manifestExists, manifest, disk, zip, pc, jobs, idx, downloaded,
          errors, rc, out_path, tmp_path, r, k, req, log, zipBuilt, run,
          start, prevRc>>

env == <<manifestExists, manifest>>
counters == <<downloaded, errors>>
locals == <<out_path, tmp_path, r, k, req>>
history == <<run, start, prevRc>>

Init ==
  /\ manifestExists \in BOOLEAN
  /\ manifest \in Manifests
  /\ (~manifestExists => manifest = <<>>)
  /\ \E fs \in InitFileSystems : disk = fs.disk /\ zip = fs.zip
  /\ pc = "start"
  /\ jobs = <<>>
  /\ idx = 0
  /\ downloaded = 0
  /\ errors = 0
  /\ rc = NotReturned
  /\ out_path = NoPath
  /\ tmp_path = NoPath
  /\ r = NoResp
  /\ k = 0
  /\ req = FALSE
  /\ log = <<>>
  /\ zipBuilt = FALSE
  /\ run = 1
  /\ start = [disk |-> disk, zip |-> zip]
  /\ prevRc = NotReturned

(* ------------------------------ file ops ------------------------------- *)
exists(d, p) == p \in DOMAIN d
st_size(d, p) == Len(d[p])
WriteFile(d, p, c) == [q \in DOMAIN d \cup {p} |-> IF q = p THEN c ELSE d[q]]
RemoveFile(d, p) == [q \in DOMAIN d \ {p} |-> d[q]]
\* os.replace(src, dst)
replace(d, src, dst) == RemoveFile(WriteFile(d, dst, d[src]), src)

(* -------------------------------- main --------------------------------- *)
\* main, lines 118-122: ensure_dirs, then the manifest check
Start ==
  /\ pc = "start"
  /\ IF ~manifestExists
     THEN /\ rc' = 2
          /\ pc' = "done"
     ELSE /\ pc' = "read"
          /\ UNCHANGED rc
  /\ UNCHANGED <<env, disk, zip, jobs, idx, counters, locals, log, zipBuilt, history>>

\* main, lines 124-134: row[...].strip() raises on a field the row lacks
ReadManifest ==
  /\ pc = "read"
  /\ IF \E i \in 1..Len(manifest) :
          manifest[i].relative_output_path = NoField
     THEN /\ pc' = "raised"
          /\ UNCHANGED <<jobs, idx>>
     ELSE /\ jobs' = [i \in 1..Len(manifest) |->
                       [url |-> manifest[i].url,
                        out_path |-> RootJoin(manifest[i].relative_output_path)]]
          /\ idx' = 1
          /\ pc' = "loop"
  /\ UNCHANGED <<env, disk, zip, counters, rc, locals, log, zipBuilt, history>>

StartsWithERROR(msg) == msg[1] = "ERROR"

\* variant: whatever did not download counts as an error
CountsAsError_not_ok(ok, msg) == ~ok

\* main, lines 139-142
CountsAsError(ok, msg) == StartsWithERROR(msg)
CountsAsDownloaded(ok, msg) == ~StartsWithERROR(msg) /\ ok

\* main, lines 137-142: download_one has returned (ok, msg)
Finish(ok, msg, failed) ==
  /\ log' = Append(log, [ok |-> ok, msg |-> msg, req |-> req', failed |-> failed])
  /\ errors' = IF CountsAsError(ok, msg) THEN errors + 1 ELSE errors
  /\ downloaded' = IF CountsAsDownloaded(ok, msg) THEN downloaded + 1 ELSE downloaded
  /\ idx' = idx + 1
  /\ pc' = "loop"
  /\ out_path' = NoPath
  /\ tmp_path' = NoPath
  /\ r' = NoResp
  /\ k' = 0

\* variant: no resume check
AlreadyPresent_never(d, p) == FALSE

\* download_one, line 77
AlreadyPresent(d, p) == exists(d, p) /\ st_size(d, p) > 0

\* main line 136 entering download_one, lines 75-80
BeginJob ==
  /\ pc = "loop"
  /\ idx <= Len(jobs)
  /\ LET p == jobs[idx].out_path IN
     IF AlreadyPresent(disk, p)
     THEN IF RelativeToRaises(p)
          THEN /\ pc' = "raised"
               /\ UNCHANGED <<idx, counters, locals, log>>
          ELSE /\ req' = FALSE
               /\ Finish(FALSE, <<"SKIP (exists)">>, FALSE)
     ELSE /\ pc' = "get"
          /\ out_path' = p
          /\ req' = FALSE
          /\ UNCHANGED <<idx, counters, tmp_path, r, k, log>>
  /\ UNCHANGED <<env, disk, zip, jobs, rc, zipBuilt, history>>

(* ---------------------------- download_one ----------------------------- *)
\* download_one, lines 87-90: a or b is a unless a is empty
FinalPath(p, resp) ==
  IF p.suffix = NoExt
  THEN LET fromUrl == infer_ext_from_url(resp.url)
           inferred == IF fromUrl # NoExt THEN fromUrl
                       ELSE infer_ext_from_content_type(HeaderOrEmpty(resp.ctype))
       IN IF inferred # NoExt THEN with_suffix(p, inferred) ELSE p
  ELSE p

\* variant: the body is streamed into the final path
TmpPath_in_place(p) == p

\* download_one, line 94
TmpPath(p) == with_suffix(p, p.suffix \o DotPart)

\* download_one, lines 83-84: requests.get or raise_for_status raises; a URL
\* that is not well-formed is rejected before anything is sent
GetRaises ==
  /\ pc = "get"
  /\ req' = (jobs[idx].url \in GoodUrls)
  /\ pc' = "except"
  /\ UNCHANGED <<env, disk, zip, jobs, idx, counters, rc, out_path, tmp_path,
                 r, k, log, zipBuilt, history>>

\* download_one, lines 83-84: a successful response has arrived
GetOk ==
  /\ pc = "get"
  /\ jobs[idx].url \in GoodUrls
  /\ r' \in Servers
  /\ req' = TRUE
  /\ pc' = "resolve"
  /\ UNCHANGED <<env, disk, zip, jobs, idx, counters, rc, out_path, tmp_path, k,
                 log, zipBuilt, history>>

\* download_one, lines 86-95: the final path, the parent directory and the
\* temp file opened "wb" (mkdir or open may raise)
Resolve ==
  /\ pc = "resolve"
  /\ out_path' = FinalPath(out_path, r)
  /\ tmp_path' = TmpPath(out_path')
  /\ \E openRaises \in BOOLEAN :
       IF openRaises
       THEN /\ pc' = "except"
            /\ UNCHANGED disk
       ELSE /\ pc' = "stream"
            /\ disk' = WriteFile(disk, tmp_path', <<>>)
  /\ k' = 0
  /\ UNCHANGED <<env, zip, jobs, idx, counters, rc, r, req, log, zipBuilt, history>>

\* download_one, lines 96-98: one chunk of the body; empty chunks are dropped
StreamChunk ==
  /\ pc = "stream"
  /\ k < Len(Body(jobs[idx].url))
  /\ LET chunk == Body(jobs[idx].url)[k + 1] IN
     IF chunk # <<>>
     THEN disk' = WriteFile(disk, tmp_path, disk[tmp_path] \o chunk)
     ELSE UNCHANGED disk
  /\ k' = k + 1
  /\ UNCHANGED <<env, zip, pc, jobs, idx, counters, rc, out_path, tmp_path, r,
                 req, log, zipBuilt, history>>

\* download_one, lines 96-98: iter_content or f.write raises instead of
\* delivering the next chunk
StreamRaises ==
  /\ pc = "stream"
  /\ k < Len(Body(jobs[idx].url))
  /\ pc' = "except"
  /\ UNCHANGED <<env, disk, zip, jobs, idx, counters, rc, locals, log,
                 zipBuilt, history>>

\* download_one, lines 100-102: the body is complete; rename, then report OK.
\* Line 102 is inside the try: what it raises lands in the except clause.
Replace ==
  /\ pc = "stream"
  /\ k = Len(Body(jobs[idx].url))
  /\ disk' = replace(disk, tmp_path, out_path)
  /\ IF RelativeToRaises(out_path)
     THEN /\ pc' = "except"
          /\ UNCHANGED <<idx, counters, locals, log>>
     ELSE /\ req' = req
          /\ Finish(TRUE, <<"OK">>, FALSE)
  /\ UNCHANGED <<env, zip, jobs, rc, zipBuilt, history>>

\* variant: an error ends the batch
Except_aborts ==
  /\ pc = "except"
  /\ pc' = "raised"
  /\ UNCHANGED <<env, disk, zip, jobs, idx, counters, rc, locals, log,
                 zipBuilt, history>>

\* download_one, lines 103-104: the message is built inside the handler
Except ==
  /\ pc = "except"
  /\ IF RelativeToRaises(out_path)
     THEN /\ pc' = "raised"
          /\ UNCHANGED <<idx, counters, locals, log>>
     ELSE /\ req' = req
          /\ Finish(FALSE, <<"ERROR", jobs[idx].url>>, TRUE)
  /\ UNCHANGED <<env, disk, zip, jobs, rc, zipBuilt, history>>

\* the process is killed while the body is being streamed
Kill ==
  /\ pc = "stream"
  /\ pc' = "killed"
  /\ UNCHANGED <<env, disk, zip, jobs, idx, counters, rc, locals, log,
                 zipBuilt, history>>

(* ------------------------------ build_zip ------------------------------ *)
\* zipfile.ZipFile(zip_path, mode): "w" starts an empty archive
ZipFileOpen(z, mode) == IF mode = "w" \/ ~z.exists THEN {} ELSE z.entries

\* build_zip, lines 112-115: folder.rglob("*") filtered by is_file()
rglob_files(d, folder) == {p \in DOMAIN d : p.inRoot /\ p.dir = folder}

RECURSIVE WalkFolders(_, _, _)
WalkFolders(d, folders, z) ==
  IF folders = <<>> THEN z
  ELSE WalkFolders(d, Tail(folders),
         z \cup { [name |-> relative_to_ROOT(p), data |-> d[p]] :
                    p \in rglob_files(d, Head(folders)) })

\* variant: the earlier archive is kept and appended to
build_zip_incremental(z, d) ==
  [exists |-> TRUE,
   entries |-> WalkFolders(d, <<"uncooked", "cooked">>, ZipFileOpen(z, "a"))]

\* build_zip
build_zip(z, d) ==
  LET unlinked == IF z.exists THEN NoZip ELSE z
  IN [exists |-> TRUE,
      entries |-> WalkFolders(d, <<"uncooked", "cooked">>, ZipFileOpen(unlinked, "w"))]

\* main, line 144, reached when the loop has run out of jobs
BuildZip ==
  /\ pc = "loop"
  /\ idx > Len(jobs)
  /\ zip' = build_zip(zip, disk)
  /\ zipBuilt' = TRUE
  /\ pc' = "return"
  /\ UNCHANGED <<env, disk, jobs, idx, counters, rc, locals, log, history>>

\* variant: the exit code ignores the errors
Return_zero ==
  /\ pc = "return"
  /\ rc' = 0
  /\ pc' = "done"
  /\ UNCHANGED <<env, disk, zip, jobs, idx, counters, locals, log, zipBuilt, run,
                 start, prevRc>>

\* main, line 153
Return ==
  /\ pc = "return"
  /\ rc' = IF errors # 0 THEN 1 ELSE 0
  /\ pc' = "done"
  /\ UNCHANGED <<env, disk, zip, jobs, idx, counters, locals, log, zipBuilt, run,
                 start, prevRc>>

\* the script has returned and is run again on the same manifest and the
\* files it left
Rerun ==
  /\ pc = "done"
  /\ run < MaxRuns
  /\ run' = run + 1
  /\ start' = [disk |-> disk, zip |-> zip]
  /\ prevRc' = rc
  /\ pc' = "start"
  /\ jobs' = <<>>
  /\ idx' = 0
  /\ downloaded' = 0
  /\ errors' = 0
  /\ rc' = NotReturned
  /\ out_path' = NoPath
  /\ tmp_path' = NoPath
  /\ r' = NoResp
  /\ k' = 0
  /\ req' = FALSE
  /\ log' = <<>>
  /\ zipBuilt' = FALSE
  /\ UNCHANGED <<env, disk, zip>>

Next ==
  \/ Start
  \/ ReadManifest
  \/ BeginJob
  \/ GetRaises
  \/ GetOk
  \/ Resolve
  \/ StreamChunk
  \/ StreamRaises
  \/ Replace
  \/ Except
  \/ Kill
  \/ BuildZip
  \/ Return
  \/ Rerun

Spec == Init /\ [][Next]_vars

(* ------------- extension resolution on its own (lines 86-95) ----------- *)
\* destinations and responses the final-path computation is tried on
ResolveRels == {RelAJpg, RelBPng, RelShape1, Rel("cooked", "shape2", NoExt)}
ResolveResponses == [url : FinalUrls, ctype : ContentTypes]

\* download_one of a one-row manifest, stopped where the response has arrived
InitResolve ==
  /\ manifestExists = TRUE
  /\ \E rel \in ResolveRels :
       /\ manifest = << Row("u1", rel) >>
       /\ jobs = << [url |-> "u1", out_path |-> RootJoin(rel)] >>
       /\ out_path = RootJoin(rel)
  /\ r \in ResolveResponses
  /\ disk = NoFiles
  /\ zip = NoZip
  /\ pc = "resolve"
  /\ idx = 1
  /\ downloaded = 0
  /\ errors = 0
  /\ rc = NotReturned
  /\ tmp_path = NoPath
  /\ k = 0
  /\ req = TRUE
  /\ log = <<>>
  /\ zipBuilt = FALSE
  /\ run = 1
  /\ start = [disk |-> disk, zip |-> zip]
  /\ prevRc = NotReturned

NextResolve == Resolve

SpecResolve == InitResolve /\ [][NextResolve]_vars

(* =========================== properties ================================ *)
Kind(i) == log[i].msg[1]
CountKind(kind) == Cardinality({i \in 1..Len(log) : Kind(i) = kind})
OutputDirs == {"uncooked", "cooked"}
\* the regular files under uncooked/ and cooked/
OutputFiles(d) == {p \in DOMAIN d : p.inRoot /\ p.dir \in OutputDirs}
OutputTree(d) == [p \in OutputFiles(d) |-> d[p]]
IsPart(suffix) ==
  Len(suffix) >= 5 /\ SubSeq(suffix, Len(suffix) - 4, Len(suffix)) = DotPart
RECURSIVE Content(_)
\* the bytes of a body: its chunks joined
Content(body) == IF body = <<>> THEN <<>> ELSE Head(body) \o Content(Tail(body))
WellFormedRow(row) ==
  row.relative_output_path # NoField /\ ~row.relative_output_path.abs
RunCompleted == pc \in {"return", "done"} /\ rc # 2
MidStreamFailure ==
  pc = "except" /\ k >= 1 /\ k < Len(Body(jobs[idx].url))

(* C1. Run twice in a row, the second run reports every job SKIP, issues   *)
(* no HTTP request and leaves the files under uncooked/ and cooked/ as the *)
(* first run left them. Stated here for the runs that follow a first run   *)
(* which returned 0 and left no empty file: even those are not idempotent. *)
C1_SecondRunSkipsAll ==
  (run = 2 /\ pc = "done" /\ prevRc = 0
     /\ \A p \in DOMAIN start.disk : start.disk[p] # <<>>)
  => /\ Len(log) = Len(manifest)
     /\ \A i \in 1..Len(log) : Kind(i) = "SKIP (exists)" /\ ~log[i].req
     /\ OutputTree(disk) = OutputTree(start.disk)

(* C2 as stated: after a failure in the middle of streaming the body, no   *)
(* file exists at the final destination path.                              *)
C2_NoFinalFileAfterFailure ==
  MidStreamFailure => ~exists(disk, out_path)

(* C2 amended. A file that is not a ".part" temp file is created or        *)
(* changed by one step only: the rename that follows the last chunk, which *)
(* puts the complete body at the final path; every other step (chunk       *)
(* writes, a failure or a kill in mid-stream) leaves each final path as it *)
(* was, absent if it was absent. The temp file is the final name + ".part".*)
C2_AtomicStep ==
  /\ (pc = "stream" => tmp_path = with_suffix(out_path, out_path.suffix \o DotPart))
  /\ \A p \in DOMAIN disk \cup DOMAIN disk' :
       (~IsPart(p.suffix)
          /\ (~exists(disk, p) \/ ~exists(disk', p) \/ disk[p] # disk'[p]))
       => /\ pc = "stream"
          /\ k = Len(Body(jobs[idx].url))
          /\ p = out_path
          /\ exists(disk', p)
          /\ disk'[p] = Content(Body(jobs[idx].url))
  /\ (pc = "stream" /\ pc' \in {"except", "killed"}
        /\ k < Len(Body(jobs[idx].url)))
       => (exists(disk', out_path) <=> exists(disk, out_path))

C2_AtomicMaterialization == [][C2_AtomicStep]_vars

\* a body failed in mid-stream: bytes sit in the temp file, the file at the
\* final path is still the one the call found
C2_Witness ==
  /\ MidStreamFailure
  /\ exists(disk, tmp_path) /\ disk[tmp_path] # <<>>
  /\ exists(disk, out_path) /\ disk[out_path] = <<>>

(* C3. With rows that are jobs (a destination under the root), whatever    *)
(* subset of the fetches fails, nothing escapes the loop; when the run     *)
(* completes all N jobs were attempted in manifest order, build_zip has    *)
(* run, and errors is the number of jobs whose fetch failed.               *)
C3_ErrorIsolation ==
  /\ (\A i \in 1..Len(manifest) : WellFormedRow(manifest[i])) => pc # "raised"
  /\ errors = Cardinality({i \in 1..Len(log) : log[i].failed})
  /\ \A i \in 1..Len(log) :
       log[i].failed => log[i].msg = <<"ERROR", manifest[i].url>>
  /\ RunCompleted => Len(log) = Len(manifest) /\ zipBuilt /\ zip.exists

\* job 1 failed, job 2 was still downloaded, the archive was built
C3_Witness ==
  /\ pc = "done" /\ Len(log) = 2
  /\ log[1].failed /\ log[2].ok /\ errors = 1 /\ zipBuilt

(* C4. main returns 2 exactly when the manifest is missing, and then no    *)
(* job was attempted and the archive is as the run found it; otherwise it  *)
(* returns 1 if some job ended in ERROR and 0 if none did, after every job *)
(* was processed and the archive built.                                    *)
C4_ExitCode ==
  /\ (~manifestExists => pc \in {"start", "done"} /\ zip = start.zip /\ ~zipBuilt)
  /\ pc = "done" =>
       /\ rc = 2 <=> ~manifestExists
       /\ rc = 2 => log = <<>> /\ jobs = <<>>
       /\ rc # 2 =>
            /\ rc = IF \E i \in 1..Len(log) : Kind(i) = "ERROR" THEN 1 ELSE 0
            /\ Len(log) = Len(manifest)
            /\ zipBuilt /\ zip.exists

\* a run that returned 1 followed by a run that returned 0
C4_Witness == run = 2 /\ pc = "done" /\ prevRc = 1 /\ rc = 0

(* C5. No exception escapes manifest reading or the batch loop, whatever   *)
(* the rows hold: a malformed row is a per-job ERROR.                      *)
C5_NothingEscapes == pc # "raised"

\* position of the last c in q, 0 if there is none
LastIndexOf(q, c) ==
  IF \E i \in 1..Len(q) : q[i] = c
  THEN CHOOSE i \in 1..Len(q) : q[i] = c /\ \A j \in (i + 1)..Len(q) : q[j] # c
  ELSE 0
FirstIndexOf(q, c) ==
  IF \E i \in 1..Len(q) : q[i] = c
  THEN CHOOSE i \in 1..Len(q) : q[i] = c /\ \A j \in 1..(i - 1) : q[j] # c
  ELSE Len(q) + 1
\* the lower-cased suffix, dot included, of the last segment of a URL path
UrlSuffix(path) ==
  LET seg == SubSeq(path, LastIndexOf(path, "/") + 1, Len(path))
      dot == LastIndexOf(seg, ".")
  IN IF dot = 0 THEN <<>>
     ELSE [i \in 1..(Len(seg) - dot + 1) |-> LowerChar(seg[dot + i - 1])]
\* the media type of a Content-Type header: lower case, no parameters, no blanks
MediaType(h) ==
  LET main == SubSeq(h, 1, FirstIndexOf(h, ";") - 1)
      kept == {i \in 1..Len(main) : main[i] # " "}
      first == IF kept = {} THEN 1 ELSE CHOOSE i \in kept : \A j \in kept : i <= j
      last == IF kept = {} THEN 0 ELSE CHOOSE i \in kept : \A j \in kept : j <= i
  IN [i \in 1..(last - first + 1) |-> LowerChar(main[first + i - 1])]
ExpectedExt(resp) ==
  LET suf == UrlSuffix(resp.url.path)
      mt == IF resp.ctype = NoHeader THEN <<>> ELSE MediaType(resp.ctype)
  IN CASE suf = DotJpeg -> DotJpg
       [] suf \in {DotJpg, DotPng, DotWebp, DotGif, DotTif, DotTiff, DotBmp} -> suf
       [] mt \in {ImageSlash \o <<"j","p","e","g">>, ImageSlash \o <<"j","p","g">>}
            -> DotJpg
       [] mt = ImageSlash \o <<"p","n","g">> -> DotPng
       [] mt = ImageSlash \o <<"w","e","b","p">> -> DotWebp
       [] mt = ImageSlash \o <<"g","i","f">> -> DotGif
       [] mt = ImageSlash \o <<"t","i","f","f">> -> DotTif
       [] mt = ImageSlash \o <<"b","m","p">> -> DotBmp
       [] OTHER -> NoExt
Resolved == pc \in {"stream", "except"} /\ r # NoResp

(* C6. The final path of a download: the manifest path itself when it has  *)
(* an extension; otherwise the manifest path plus the lower-cased suffix of *)
(* the final URL path when that is whitelisted (.jpeg becoming .jpg), else *)
(* plus the extension the table gives the Content-Type without its         *)
(* parameters, else nothing. The URL suffix wins over the Content-Type;    *)
(* no URL suffix and image/png for uncooked/shape1 give uncooked/shape1.png.*)
C6_FinalPath ==
  Resolved =>
    LET given == jobs[idx].out_path IN
    /\ given.suffix # NoExt => out_path = given
    /\ given.suffix = NoExt =>
         out_path = [given EXCEPT !.suffix = ExpectedExt(r)]
    /\ (given = RootJoin(RelShape1) /\ r.url.path = <<"/","i","m","g">>
          /\ r.ctype = ImageSlash \o <<"p","n","g">>)
         => out_path = RootJoin(Rel("uncooked", "shape1", DotPng))

\* a URL ending in .JPEG with Content-Type image/png: the file is a .jpg
C6_Witness ==
  /\ pc = "stream"
  /\ jobs[idx].out_path.suffix = NoExt
  /\ r.url.path = <<"/","w","/","a",".","J","P","E","G">>
  /\ r.ctype = ImageSlash \o <<"p","n","g">>
  /\ out_path.suffix = DotJpg
  /\ exists(disk, tmp_path)

(* C7. Each job's outcome is exactly one of downloaded, skipped, error;    *)
(* downloaded counts the first, errors the last, a skip counts in neither; *)
(* after k jobs downloaded + errors + skipped = k, and when the loop ends  *)
(* the sum is the number of manifest rows.                                 *)
C7_Classification ==
  /\ \A i \in 1..Len(log) :
       /\ Kind(i) \in {"OK", "SKIP (exists)", "ERROR"}
       /\ log[i].ok <=> Kind(i) = "OK"
  /\ downloaded = CountKind("OK")
  /\ errors = CountKind("ERROR")
  /\ downloaded + errors + CountKind("SKIP (exists)") = Len(log)
  /\ pc \in {"loop", "get", "resolve", "stream", "except"} => Len(log) = idx - 1
  /\ RunCompleted =>
       downloaded + errors + CountKind("SKIP (exists)") = Len(manifest)

\* one job skipped, one in error: the skip is in neither counter
C7_Witness ==
  /\ pc = "done" /\ Len(log) = 2
  /\ CountKind("SKIP (exists)") = 1 /\ errors = 1 /\ downloaded = 0

(* C8. Once build_zip has run, the archive holds exactly the regular files *)
(* under uncooked/ and cooked/, each under its path relative to the root   *)
(* and with its content, and nothing of the archive that was there before. *)
(* A first run from an empty tree that left uncooked/a.jpg and             *)
(* cooked/b.png has exactly these two entries.                             *)
C8_ArchiveContent ==
  (zipBuilt /\ pc \in {"return", "done"}) =>
    /\ zip.exists
    /\ zip.entries =
         { [name |-> <<p.dir, p.stem, p.suffix>>, data |-> disk[p]] :
             p \in OutputFiles(disk) }
    /\ (OutputFiles(disk) = {RootJoin(RelAJpg), RootJoin(RelBPng)})
         => { e.name : e \in zip.entries } =
              { <<"uncooked", "a", DotJpg>>, <<"cooked", "b", DotPng>> }

\* an earlier archive was replaced by one of the files now on disk
C8_Witness ==
  /\ pc = "done" /\ zipBuilt /\ start.zip = OldZip
  /\ Cardinality(zip.entries) >= 2
  /\ zip.entries \cap OldZip.entries = {}

(* C9 as stated: of the rows that name one initially absent destination    *)
(* with different URLs, the last in manifest order provides the file.      *)
(* Stated for runs in which no job failed.                                 *)
C9_LastWriteWins ==
  (pc = "done" /\ rc = 0) =>
    \A i \in 1..Len(jobs), j \in 1..Len(jobs) :
      (i < j /\ jobs[i].out_path = jobs[j].out_path /\ jobs[i].url # jobs[j].url
         /\ jobs[i].out_path.suffix # NoExt
         /\ ~exists(start.disk, jobs[i].out_path)
         /\ \A l \in (j + 1)..Len(jobs) : jobs[l].out_path # jobs[j].out_path)
      => /\ exists(disk, jobs[j].out_path)
         /\ disk[jobs[j].out_path] = Content(Body(jobs[j].url))

(* C9 amended. Of the rows that name one initially absent destination      *)
(* (with an extension) with different URLs, the first whose download       *)
(* succeeded with a non-empty body provides the file: every later such row *)
(* is skipped.                                                             *)
C9_FirstWriteWins ==
  (pc = "done" /\ rc # 2) =>
    \A i \in 1..Len(jobs), j \in 1..Len(jobs) :
      (i < j /\ jobs[i].out_path = jobs[j].out_path /\ jobs[i].url # jobs[j].url
         /\ jobs[i].out_path.suffix # NoExt
         /\ ~exists(start.disk, jobs[i].out_path)
         /\ log[i].ok /\ Content(Body(jobs[i].url)) # <<>>
         /\ \A l \in 1..(i - 1) :
              jobs[l].out_path = jobs[i].out_path
                => ~(log[l].ok /\ Content(Body(jobs[l].url)) # <<>>))
      => /\ Kind(j) = "SKIP (exists)"
         /\ exists(disk, jobs[i].out_path)
         /\ disk[jobs[i].out_path] = Content(Body(jobs[i].url))

\* two rows for uncooked/a.jpg: the first was downloaded, the second skipped
C9_Witness ==
  /\ pc = "done" /\ Len(jobs) = 2
  /\ jobs[1].out_path = jobs[2].out_path /\ jobs[1].url # jobs[2].url
  /\ ~exists(start.disk, jobs[1].out_path)
  /\ log[1].ok /\ Kind(2) = "SKIP (exists)"
  /\ disk[jobs[1].out_path] = Content(Body(jobs[1].url))
  /\ disk[jobs[1].out_path] # Content(Body(jobs[2].url))

(* C10. No entry of the archive built by a run is a ".part" temp file left *)
(* by a download that failed while streaming its body.                     *)
C10_NoPartFileInArchive ==
  zipBuilt => \A e \in zip.entries : ~IsPart(e.name[3])

====
